---- MODULE Spec2Model ----
(***************************************************************************)
(* Model of the jetton deployer front end:                                 *)
(*   - the on-chain metadata codec buildOnChainData / parseOnChainData,    *)
(*     initData and mintBody (src/src/components/connect/AdaptersList.tsx) *)
(*   - the submit handler deployContract of the Deployer screen            *)
(*     (src/src/screens/deployer/index.tsx)                                *)
(*   - the connection store (src/src/store/connection-store/index.ts)      *)
(*                                                                         *)
(* A JS string is a sequence of UTF-16 code units (integers), a Buffer a   *)
(* sequence of bytes.  A cell is a record of its stored fields and its     *)
(* references.                                                             *)
(***************************************************************************)
EXTENDS Integers, Sequences, FiniteSets, TLC

VARIABLES
    \* ---- codec (buildOnChainData / parseOnChainData)
    phase,            \* "start" | "received" | "built" | "parsed"
    data,             \* the argument of buildOnChainData: Object.entries order
    cell,             \* the content cell built, or received from the chain
    built,            \* outcome of buildOnChainData
    parsed,           \* outcome of parseOnChainData
    \* ---- message builder / init data / address derivation
    mphase,           \* which of "minted", "inited", "derived" have been computed
    owner,            \* owner address (0: null, h > 0: the address of hash h)
    jettonValue,      \* amount to mint (nano units)
    metadata,         \* metadata mapping given to initData
    message,          \* result of mintBody
    initCell,         \* result of initData
    derived,          \* result of addressForContract
    \* ---- Deployer screen
    address,          \* connection store: address (string | null)
    connection,       \* WalletConnection.getConnection()
    error,            \* useState: error
    isLoading,        \* useState: isLoading
    contractAddress,  \* useState: contractAddress
    runs              \* the invocations of deployContract, one record each

codecVars == <<phase, data, cell, built, parsed>>
msgVars == <<mphase, owner, jettonValue, metadata, message, initCell, derived>>
uiVars == <<address, connection, error, isLoading, contractAddress, runs>>
vars == <<codecVars, msgVars, uiVars>>

----------------------------------------------------------------------------
(* Bounds *)

\* most UTF-16 code units of text in one input object
MaxLen == 2
\* most own enumerable properties of the object given to buildOnChainData
MaxEntries == 2

\* code units the strings are drawn from: "A" (one UTF-8 byte), U+00E9 (two)
\* and U+20AC (three); the last two are not 7-bit ASCII
Alphabet == {65, 233, 8364}

RECURSIVE SeqsUpTo(_, _)
SeqsUpTo(S, n) ==
    IF n = 0 THEN {<<>>}
    ELSE LET shorter == SeqsUpTo(S, n - 1)
         IN  shorter \cup {Append(s, x) : s \in {t \in shorter : Len(t) = n - 1}, x \in S}

Strings == SeqsUpTo(Alphabet, MaxLen)

----------------------------------------------------------------------------
(* Constants of AdaptersList.tsx *)

ONCHAIN_CONTENT_PREFIX == 0
SNAKE_PREFIX == 0

\* Object.keys(jettonOnChainMetadataSpec), in definition order
SpecKeys == <<"name", "description", "image", "symbol">>
JettonMetaDataKeys == {SpecKeys[i] : i \in 1..Len(SpecKeys)}

\* properties every object literal inherits from Object.prototype; the model
\* carries one of them
ObjectPrototypeKeys == {"toString"}

\* jettonOnChainMetadataSpec[k]: an own property gives the encoding, an
\* inherited one gives the inherited (truthy) value, anything else undefined
jettonOnChainMetadataSpec(k) ==
    CASE k \in {"name", "description", "symbol"} -> "utf8"
      [] k = "image" -> "ascii"
      [] k \in ObjectPrototypeKeys -> "inherited"
      [] OTHER -> "undefined"

\* JS truthiness of a value of jettonOnChainMetadataSpec[k]
Truthy(e) == e # "undefined"

----------------------------------------------------------------------------
(* Buffer <-> string conversions (the Buffer of index.tsx:1-2) *)

\* utf8 bytes of one code unit of the Basic Multilingual Plane
Utf8OfUnit(c) ==
    IF c < 128 THEN <<c>>
    ELSE IF c < 2048 THEN <<192 + (c \div 64), 128 + (c % 64)>>
    ELSE <<224 + (c \div 4096), 128 + ((c \div 64) % 64), 128 + (c % 64)>>

RECURSIVE Utf8ToBytes(_)
Utf8ToBytes(s) ==
    IF s = <<>> THEN <<>> ELSE Utf8OfUnit(Head(s)) \o Utf8ToBytes(Tail(s))

\* "ascii" writes the low byte of every code unit
RECURSIVE AsciiToBytes(_)
AsciiToBytes(s) ==
    IF s = <<>> THEN <<>> ELSE <<Head(s) % 256>> \o AsciiToBytes(Tail(s))

\* Buffer.from(v, encoding): an encoding that is not a string means utf8
BufferFrom(v, enc) ==
    IF enc = "ascii" THEN AsciiToBytes(v) ELSE Utf8ToBytes(v)

IsCont(b) == b >= 128 /\ b < 192

\* utf8 decoding of bytes below 0xF0: a malformed or truncated sequence gives
\* U+FFFD and consumes one byte
RECURSIVE Utf8Slice(_)
Utf8Slice(b) ==
    IF b = <<>> THEN <<>>
    ELSE LET f == Head(b)
             n == Len(b)
         IN  IF f < 128 THEN <<f>> \o Utf8Slice(Tail(b))
             ELSE IF f >= 192 /\ f < 224 /\ n >= 2 /\ IsCont(b[2])
                     /\ (f % 32) * 64 + (b[2] % 64) > 127
                  THEN <<(f % 32) * 64 + (b[2] % 64)>> \o Utf8Slice(SubSeq(b, 3, n))
             ELSE IF f >= 224 /\ f < 240 /\ n >= 3 /\ IsCont(b[2]) /\ IsCont(b[3])
                     /\ (f % 16) * 4096 + (b[2] % 64) * 64 + (b[3] % 64) > 2047
                     /\ ~ ((f % 16) * 4096 + (b[2] % 64) * 64 + (b[3] % 64) \in 55296..57343)
                  THEN <<(f % 16) * 4096 + (b[2] % 64) * 64 + (b[3] % 64)>>
                           \o Utf8Slice(SubSeq(b, 4, n))
             ELSE <<65533>> \o Utf8Slice(Tail(b))

\* "ascii" reads every byte with its high bit cleared
RECURSIVE AsciiSlice(_)
AsciiSlice(b) ==
    IF b = <<>> THEN <<>> ELSE <<Head(b) % 128>> \o AsciiSlice(Tail(b))

\* buf.toString(encoding)
BufferToString(b, enc) ==
    IF enc = "ascii" THEN AsciiSlice(b) ELSE Utf8Slice(b)

\* buf.toString("hex"): two hex digits per byte
RECURSIVE BufferToHex(_)
BufferToHex(b) ==
    IF b = <<>> THEN <<>>
    ELSE <<Head(b) \div 16, Head(b) % 16>> \o BufferToHex(Tail(b))

----------------------------------------------------------------------------
(* Digests and dictionary keys *)

\* sha256(str): the leading three bytes of the real SHA-256 digest of each
\* key name the model uses
sha256(k) ==
    CASE k = "name" -> <<130, 163, 83>>
      [] k = "description" -> <<201, 4, 111>>
      [] k = "image" -> <<97, 5, 214>>
      [] k = "symbol" -> <<183, 106, 124>>
      [] k = "foo" -> <<44, 38, 180>>
      [] k = "toString" -> <<187, 181, 34>>

\* new BN(buffer): big-endian value of the bytes
RECURSIVE BNFromBuffer(_)
BNFromBuffer(b) ==
    IF b = <<>> THEN 0 ELSE BNFromBuffer(SubSeq(b, 1, Len(b) - 1)) * 256 + b[Len(b)]

\* new BN(str, "hex")
RECURSIVE BNFromHex(_)
BNFromHex(h) ==
    IF h = <<>> THEN 0 ELSE BNFromHex(SubSeq(h, 1, Len(h) - 1)) * 16 + h[Len(h)]

\* bn.toString(10): the decimal digits, most significant first
RECURSIVE BNToString10(_)
BNToString10(n) ==
    IF n < 10 THEN <<n>> ELSE Append(BNToString10(n \div 10), n % 10)

\* toKey of parseOnChainData
toKey(hex) == BNToString10(BNFromHex(hex))

----------------------------------------------------------------------------
(* buildOnChainData *)

EmptyDict == [n \in {} |-> 0]
NoCell == [tag |-> -1, dict |-> EmptyDict]

\* builder.storeUint8(v) / storeInt(v, 8): the low eight bits
StoreUint8(v) == v % 256
StoreInt8(v) == v % 256
\* slice.readUint(8)
ReadUint8(b) == b % 256

\* dict.storeCell(index, cell): the entry under the 256-bit key of the buffer
StoreCell(dict, index, c) ==
    LET n == BNFromBuffer(index)
    IN  [x \in DOMAIN dict \cup {n} |-> IF x = n THEN c ELSE dict[x]]

\* a build whose loop ends at the first undefined value instead of skipping it
RECURSIVE BuildEntries_stopAtUndefined(_, _, _)
BuildEntries_stopAtUndefined(d, i, dict) ==
    IF i > Len(d) THEN [status |-> "ok", err |-> "", key |-> "", dict |-> dict]
    ELSE LET k == d[i].k
             enc == jettonOnChainMetadataSpec(k)
         IN  IF ~ Truthy(enc)
             THEN [status |-> "error", err |-> "Unsupported onchain key", key |-> k,
                   dict |-> EmptyDict]
             ELSE IF ~ d[i].def
             THEN [status |-> "ok", err |-> "", key |-> "", dict |-> dict]
             ELSE BuildEntries_stopAtUndefined(d, i + 1,
                      StoreCell(dict, sha256(k),
                                [prefix |-> StoreUint8(SNAKE_PREFIX),
                                 bytes |-> BufferFrom(d[i].v, enc)]))

\* the body of the forEach over Object.entries(data), from entry i on
RECURSIVE BuildEntries(_, _, _)
BuildEntries(d, i, dict) ==
    IF i > Len(d) THEN [status |-> "ok", err |-> "", key |-> "", dict |-> dict]
    ELSE LET k == d[i].k
             enc == jettonOnChainMetadataSpec(k)
         IN  IF ~ Truthy(enc)
             THEN [status |-> "error", err |-> "Unsupported onchain key", key |-> k,
                   dict |-> EmptyDict]
             ELSE IF ~ d[i].def THEN BuildEntries(d, i + 1, dict)
             ELSE BuildEntries(d, i + 1,
                      StoreCell(dict, sha256(k),
                                [prefix |-> StoreUint8(SNAKE_PREFIX),
                                 bytes |-> BufferFrom(d[i].v, enc)]))

buildOnChainData(d) ==
    LET r == BuildEntries(d, 1, EmptyDict)
    IN  IF r.status = "error"
        THEN [status |-> "error", err |-> r.err, key |-> r.key, cell |-> NoCell]
        ELSE [status |-> "ok", err |-> "", key |-> "",
              cell |-> [tag |-> StoreInt8(ONCHAIN_CONTENT_PREFIX), dict |-> r.dict]]

----------------------------------------------------------------------------
(* parseOnChainData *)

EmptyMap == [k \in {} |-> <<>>]

\* a readDict that checks the snake tag of the metadata keys' entries only
ReadDict_recognizedOnly(dict) ==
    LET known == {BNFromBuffer(sha256(SpecKeys[i])) : i \in 1..Len(SpecKeys)}
        bad == {n \in DOMAIN dict \cap known : ReadUint8(dict[n].prefix) # SNAKE_PREFIX}
    IN  IF bad # {}
        THEN [status |-> "error", read |-> 1, dict |-> EmptyMap]
        ELSE [status |-> "ok", read |-> Cardinality(DOMAIN dict),
              dict |-> [s \in {BNToString10(n) : n \in DOMAIN dict} |->
                          dict[CHOOSE n \in DOMAIN dict : BNToString10(n) = s].bytes]]

\* contentSlice.readDict(KEYLEN, extractor): the entries are visited in key
\* order, the extractor throws at the first one without the snake tag; the
\* parsed dictionary is keyed by the decimal string of the key
ReadDict(dict) ==
    LET bad == {n \in DOMAIN dict : ReadUint8(dict[n].prefix) # SNAKE_PREFIX}
        firstBad == CHOOSE n \in bad : \A m \in bad : n <= m
    IN  IF bad # {}
        THEN [status |-> "error", read |-> Cardinality({n \in DOMAIN dict : n <= firstBad}),
              dict |-> EmptyMap]
        ELSE [status |-> "ok", read |-> Cardinality(DOMAIN dict),
              dict |-> [s \in {BNToString10(n) : n \in DOMAIN dict} |->
                          dict[CHOOSE n \in DOMAIN dict : BNToString10(n) = s].bytes]]

\* the forEach over Object.keys(jettonOnChainMetadataSpec): res[k] = val if (val)
ParseResult(dict) ==
    LET key(k) == toKey(BufferToHex(sha256(k)))
        val(k) == BufferToString(dict[key(k)], jettonOnChainMetadataSpec(k))
    IN  [k \in {k \in JettonMetaDataKeys : key(k) \in DOMAIN dict /\ val(k) # <<>>} |-> val(k)]

\* a parse that reads the dictionary without looking at the leading tag
parseOnChainData_noMarker(c) ==
    LET d == ReadDict(c.dict)
    IN  IF d.status = "error"
        THEN [status |-> "error", err |-> "Only snake format is supported",
              read |-> d.read, map |-> EmptyMap]
        ELSE [status |-> "ok", err |-> "", read |-> d.read, map |-> ParseResult(d.dict)]

parseOnChainData(c) ==
    IF ReadUint8(c.tag) # ONCHAIN_CONTENT_PREFIX
    THEN [status |-> "error", err |-> "Expected onchain content marker", read |-> 0,
          map |-> EmptyMap]
    ELSE LET d == ReadDict(c.dict)
         IN  IF d.status = "error"
             THEN [status |-> "error", err |-> "Only snake format is supported",
                   read |-> d.read, map |-> EmptyMap]
             ELSE [status |-> "ok", err |-> "", read |-> d.read, map |-> ParseResult(d.dict)]

----------------------------------------------------------------------------
(* Inputs of the codec *)

\* property names an input object may carry: the four metadata keys, a key
\* that is no property of jettonOnChainMetadataSpec, and an inherited one
InputKeys == JettonMetaDataKeys \cup {"foo"} \cup ObjectPrototypeKeys

\* the value of an own enumerable property: a string or undefined
Values == [def : {TRUE}, v : Strings] \cup [def : {FALSE}, v : {<<>>}]

RECURSIVE TotalLen(_, _)
TotalLen(vs, n) == IF n = 0 THEN 0 ELSE Len(vs[n].v) + TotalLen(vs, n - 1)

\* the input objects: at most MaxEntries properties of distinct names, in
\* every enumeration order, holding at most MaxLen code units of text
KeySeqs(n) == {ks \in [1..n -> InputKeys] : \A i, j \in 1..n : i # j => ks[i] # ks[j]}
ValSeqs(n) == {vs \in [1..n -> Values] : TotalLen(vs, n) <= MaxLen}
InputOf(n, ks, vs) == [i \in 1..n |-> [k |-> ks[i], def |-> vs[i].def, v |-> vs[i].v]]

InputsOfSize(n) == {InputOf(n, ks, vs) : ks \in KeySeqs(n), vs \in ValSeqs(n)}

\* content cells as they may arrive from the chain: any leading tag, entries
\* under the digests of two metadata keys and of a foreign key, any entry
\* tag, well-formed and malformed utf8
ForeignTags == {0, 1, 255}
ForeignDigests == {BNFromBuffer(sha256(k)) : k \in {"name", "image", "foo"}}
ForeignBytes == {<<>>, <<65>>, <<195, 169>>, <<233>>}
ForeignValues == [prefix : {0, 1}, bytes : ForeignBytes]
ForeignDicts ==
    UNION {[S -> ForeignValues] : S \in SUBSET ForeignDigests}
ForeignCells == [tag : ForeignTags, dict : ForeignDicts]

NoBuilt == [status |-> "none", err |-> "", key |-> "", cell |-> NoCell]
NoParsed == [status |-> "none", err |-> "", read |-> 0, map |-> EmptyMap]

----------------------------------------------------------------------------
(* Cell builder, mintBody, initData *)

\* most owner addresses, and the largest small mint amount, the inputs enumerate
NumOwners == 3
MaxMint == 3

Owners == 1..NumOwners
JettonValues == (0..MaxMint) \cup {1000000000}

OpMint == 21
OpInternalTransfer == 395134233
OpTransfer == 260734629

\* number of bytes of the shortest big-endian form of n (0 for 0)
RECURSIVE ByteLength(_)
ByteLength(n) == IF n = 0 THEN 0 ELSE 1 + ByteLength(n \div 256)

\* the fields a builder stores, with their widths in bits
StoreUint(v, w) == [t |-> "uint", w |-> w, v |-> v]
\* storeAddress: null is addr_none (2 bits), an address is addr_std (267 bits)
StoreAddress(a) == [t |-> "addr", w |-> IF a = 0 THEN 2 ELSE 267, v |-> a]
\* storeCoins: a 4-bit byte length, then the bytes of the amount
StoreCoins(n) == [t |-> "coins", w |-> 4 + 8 * ByteLength(n), v |-> n]
StoreBit(b) == [t |-> "bit", w |-> 1, v |-> IF b THEN 1 ELSE 0]

NoRefs == SubSeq(<<NoCell>>, 1, 0)
NoMessage == [fields |-> SubSeq(<<StoreBit(FALSE)>>, 1, 0), refs |-> NoRefs]

\* toNano of a decimal number with one fractional digit
toNano(whole, tenths) == whole * 1000000000 + tenths * 100000000

\* the cells loaded from the compiled contracts
JETTON_WALLET_CODE == [boc |-> "jetton-wallet-bitcode"]
JETTON_MINTER_CODE == [boc |-> "jetton-minter-bitcode"]

\* a mint body whose nested message carries the Transfer opcode
mintBody_transferOp(o, v) ==
    [fields |-> <<StoreUint(OpMint, 32),
                  StoreUint(0, 64),
                  StoreAddress(o),
                  StoreCoins(toNano(0, 2))>>,
     refs |-> <<[fields |-> <<StoreUint(OpTransfer, 32),
                              StoreUint(0, 64),
                              StoreCoins(v),
                              StoreAddress(0),
                              StoreAddress(0),
                              StoreCoins(0),
                              StoreBit(FALSE)>>,
                 refs |-> NoRefs]>>]

mintBody(o, v) ==
    [fields |-> <<StoreUint(OpMint, 32),
                  StoreUint(0, 64),
                  StoreAddress(o),
                  StoreCoins(toNano(0, 2))>>,
     refs |-> <<[fields |-> <<StoreUint(OpInternalTransfer, 32),
                              StoreUint(0, 64),
                              StoreCoins(v),
                              StoreAddress(0),
                              StoreAddress(0),
                              StoreCoins(0),
                              StoreBit(FALSE)>>,
                 refs |-> NoRefs]>>]

NoInit == [status |-> "none", content |-> NoCell, cell |-> NoMessage]

\* an init data that stores no owner (the null address in its place)
initData_noOwner(o, d) ==
    LET c == buildOnChainData(d)
    IN  IF c.status = "error"
        THEN [status |-> "error", content |-> NoCell, cell |-> NoMessage]
        ELSE [status |-> "ok", content |-> c.cell,
              cell |-> [fields |-> <<StoreCoins(0), StoreAddress(0)>>,
                        refs |-> <<c.cell, JETTON_WALLET_CODE>>]]

\* initData: buildOnChainData may throw, and then so does initData
initData(o, d) ==
    LET c == buildOnChainData(d)
    IN  IF c.status = "error"
        THEN [status |-> "error", content |-> NoCell, cell |-> NoMessage]
        ELSE [status |-> "ok", content |-> c.cell,
              cell |-> [fields |-> <<StoreCoins(0), StoreAddress(o)>>,
                        refs |-> <<c.cell, JETTON_WALLET_CODE>>]]

\* metadata mappings given to initData: typed by JettonMetaDataKeys
Metadatas ==
    InputsOfSize(0) \cup {d \in InputsOfSize(1) : d[1].k \in JettonMetaDataKeys}

----------------------------------------------------------------------------
(* lib/utils createDeployParams and lib/contract-deployer addressForContract:
   not part of the sources at hand; modelled from the specification
   (sections 4.3 and 4.4) *)

createDeployParams(o, d, amount) ==
    [code |-> JETTON_MINTER_CODE, data |-> initData(o, d).cell, deployer |-> o,
     message |-> mintBody(o, amount)]

\* the representation hash of a cell, taken as collision free: the cell stands
\* for its own hash
CellHash(c) == c

NoAddress == [wc |-> 0, hash |-> [code |-> JETTON_MINTER_CODE, data |-> NoMessage]]

\* the address is the hash of the state init (code, data) in workchain 0
addressForContract(params) ==
    [wc |-> 0, hash |-> CellHash([code |-> params.code, data |-> params.data])]

----------------------------------------------------------------------------
(* Values of the variables a specification does not use *)

NullAddr == [kind |-> "null", hash |-> 0]

CodecOff ==
    /\ phase = "off" /\ data = <<>> /\ cell = NoCell
    /\ built = NoBuilt /\ parsed = NoParsed

MsgOff ==
    /\ mphase = {} /\ owner = 0 /\ jettonValue = 0 /\ metadata = <<>>
    /\ message = NoMessage /\ initCell = NoInit /\ derived = NoAddress

UiOff ==
    /\ address = NullAddr /\ connection = "null" /\ error = "null"
    /\ isLoading = FALSE /\ contractAddress = NoAddress
    /\ runs = <<>>

----------------------------------------------------------------------------
(* Specification of the codec: buildOnChainData on every input object, then
   parseOnChainData on its result; parseOnChainData on every received cell *)

InitCodec ==
    /\ \/ /\ phase = "start"
          /\ \E n \in 0..MaxEntries : \E ks \in KeySeqs(n), vs \in ValSeqs(n) :
                data = InputOf(n, ks, vs)
          /\ cell = NoCell
       \/ phase = "received" /\ data = <<>> /\ cell \in ForeignCells
    /\ built = NoBuilt
    /\ parsed = NoParsed
    /\ MsgOff
    /\ UiOff

Build ==
    /\ phase = "start"
    /\ built' = buildOnChainData(data)
    /\ cell' = built'.cell
    /\ phase' = "built"
    /\ UNCHANGED <<data, parsed, msgVars, uiVars>>

Parse ==
    /\ \/ phase = "built" /\ built.status = "ok"
       \/ phase = "received"
    /\ parsed' = parseOnChainData(cell)
    /\ phase' = "parsed"
    /\ UNCHANGED <<data, cell, built, msgVars, uiVars>>

NextCodec == Build \/ Parse

Spec == InitCodec /\ [][NextCodec]_vars

----------------------------------------------------------------------------
(* Specification of the message builder: mintBody, initData and the address
   derivation on every owner, amount and metadata mapping *)

InitMsg ==
    /\ mphase = {}
    /\ owner \in Owners
    /\ jettonValue \in JettonValues
    /\ metadata \in Metadatas
    /\ message = NoMessage
    /\ initCell = NoInit
    /\ derived = NoAddress
    /\ CodecOff
    /\ UiOff

MintBody ==
    /\ "minted" \notin mphase
    /\ message' = mintBody(owner, jettonValue)
    /\ mphase' = mphase \cup {"minted"}
    /\ UNCHANGED <<owner, jettonValue, metadata, initCell, derived, codecVars, uiVars>>

InitData ==
    /\ "inited" \notin mphase
    /\ initCell' = initData(owner, metadata)
    /\ mphase' = mphase \cup {"inited"}
    /\ UNCHANGED <<owner, jettonValue, metadata, message, derived, codecVars, uiVars>>

DeriveAddress ==
    /\ "inited" \in mphase
    /\ "derived" \notin mphase
    /\ initCell.status = "ok"
    /\ derived' = addressForContract([code |-> JETTON_MINTER_CODE, data |-> initCell.cell])
    /\ mphase' = mphase \cup {"derived"}
    /\ UNCHANGED <<owner, jettonValue, metadata, message, initCell, codecVars, uiVars>>

NextMsg == MintBody \/ InitData \/ DeriveAddress

SpecMsg == InitMsg /\ [][NextMsg]_vars

----------------------------------------------------------------------------
(* Properties of the codec *)

\* the input object as a mapping: its keys that carry a value, with the value
MappingOf(d) ==
    [k \in {d[i].k : i \in {j \in 1..Len(d) : d[j].def}} |->
        d[CHOOSE i \in 1..Len(d) : d[i].k = k].v]

ValidMetadata(d) == \A i \in 1..Len(d) : d[i].k \in JettonMetaDataKeys

RoundTripDone == phase = "parsed" /\ built.status = "ok"

\* C1: for every valid metadata mapping m,
\* parseOnChainData(buildOnChainData(m)) has exactly the keys of m that carry a
\* value, with the same string for each.
C1_RoundTrip ==
    (RoundTripDone /\ ValidMetadata(data)) =>
        (parsed.status = "ok" /\ parsed.map = MappingOf(data))

\* C2: buildOnChainData fails with the unsupported-key error, and returns no
\* cell, for every input with at least one key outside name, description,
\* image, symbol.
C2_RejectsUnknownKeys ==
    (built.status # "none" /\ ~ ValidMetadata(data)) =>
        (built.status = "error" /\ built.err = "Unsupported onchain key"
         /\ built.cell = NoCell)

\* C3: parseOnChainData fails with the content-marker error, returns no
\* mapping and has read no dictionary entry, for every content cell whose
\* leading 8-bit tag is not the on-chain content marker.
C3_RejectsWrongMarker ==
    (phase = "parsed" /\ ReadUint8(cell.tag) # ONCHAIN_CONTENT_PREFIX) =>
        /\ parsed.status = "error"
        /\ parsed.err = "Expected onchain content marker"
        /\ parsed.map = EmptyMap
        /\ parsed.read = 0

C3_Witness ==
    /\ phase = "parsed"
    /\ ReadUint8(cell.tag) # ONCHAIN_CONTENT_PREFIX
    /\ DOMAIN cell.dict # {}
    /\ parsed.status = "error"

MarkerOk == phase = "parsed" /\ ReadUint8(cell.tag) = ONCHAIN_CONTENT_PREFIX

BadEntries(dict) == {n \in DOMAIN dict : dict[n].prefix # SNAKE_PREFIX}
KeyDigests == {BNFromBuffer(sha256(k)) : k \in JettonMetaDataKeys}

AbsentOmitted ==
    \A k \in JettonMetaDataKeys :
        BNFromBuffer(sha256(k)) \notin DOMAIN cell.dict => k \notin DOMAIN parsed.map

\* C4 as claimed: on a cell with the content marker, parseOnChainData fails
\* exactly when an entry under the digest of a metadata key lacks the snake
\* tag; absent entries are omitted from the result.
C4_FailsOnlyOnRecognizedEntries ==
    MarkerOk =>
        /\ parsed.status = "error" <=> (BadEntries(cell.dict) \cap KeyDigests # {})
        /\ AbsentOmitted

\* C4 as amended: on a cell with the content marker, parseOnChainData fails
\* (with the snake-format error) exactly when some entry of the dictionary,
\* under the digest of a metadata key or under any other key, lacks the snake
\* tag; metadata keys absent from the dictionary are omitted from the result
\* and cause no error.
C4_FailsOnAnyEntry ==
    MarkerOk =>
        /\ parsed.status = "error" <=> (BadEntries(cell.dict) # {})
        /\ parsed.status = "error" => parsed.err = "Only snake format is supported"
        /\ AbsentOmitted

C4_Witness ==
    /\ MarkerOk
    /\ BadEntries(cell.dict) # {}
    /\ BadEntries(cell.dict) \cap KeyDigests = {}
    /\ DOMAIN cell.dict \cap KeyDigests # {}
    /\ KeyDigests \ DOMAIN cell.dict # {}
    /\ parsed.status = "error"

\* the enumerations of the same key/value pairs in every order
Reorderings(d) ==
    {[i \in 1..Len(d) |-> d[p[i]]] :
        p \in {q \in [1..Len(d) -> 1..Len(d)] : \A i, j \in 1..Len(d) : i # j => q[i] # q[j]}}

\* C5: two input objects with the same key/value pairs, enumerated in any two
\* orders, give the identical content cell (same leading tag, same
\* dictionary), and one is rejected exactly when the other is.
C5_OrderIndependent ==
    built.status # "none" =>
        \A d \in Reorderings(data) :
            /\ buildOnChainData(d).status = built.status
            /\ buildOnChainData(d).cell = built.cell

C5_Witness ==
    /\ built.status = "ok"
    /\ Len(data) = 2
    /\ data[1].def /\ ~ data[2].def
    /\ DOMAIN built.cell.dict # {}

----------------------------------------------------------------------------
(* Properties of the message builder *)

\* C6: mintBody(owner, jettonValue) is: 32-bit opcode Mint (21), 64-bit query
\* id 0, the owner address, the gas fee 0.2 in nano units, and one reference
\* to a cell holding 32-bit opcode InternalTransfer (0x178d4519), 64-bit query
\* id 0, the coin amount jettonValue, two null addresses, forward amount 0 and
\* one bit false.
C6_MintLayout ==
    "minted" \in mphase =>
        LET f == message.fields
            r == message.refs[1].fields
        IN  /\ Len(f) = 4
            /\ f[1] = [t |-> "uint", w |-> 32, v |-> 21]
            /\ f[2] = [t |-> "uint", w |-> 64, v |-> 0]
            /\ f[3].t = "addr" /\ f[3].v = owner /\ f[3].w = 267
            /\ f[4].t = "coins" /\ f[4].v = 200000000
            /\ Len(message.refs) = 1
            /\ Len(r) = 7
            /\ r[1] = [t |-> "uint", w |-> 32, v |-> 395134233]
            /\ r[2] = [t |-> "uint", w |-> 64, v |-> 0]
            /\ r[3].t = "coins" /\ r[3].v = jettonValue
            /\ r[4] = [t |-> "addr", w |-> 2, v |-> 0]
            /\ r[5] = [t |-> "addr", w |-> 2, v |-> 0]
            /\ r[6] = [t |-> "coins", w |-> 4, v |-> 0]
            /\ r[7] = [t |-> "bit", w |-> 1, v |-> 0]
            /\ Len(message.refs[1].refs) = 0

C6_Witness ==
    /\ "minted" \in mphase
    /\ owner = 2
    /\ jettonValue = 1000000000
    /\ Len(message.fields) = 4

----------------------------------------------------------------------------
(* The Deployer screen: deployContract and the handlers around it.

   deployContract is an async function: the code up to an await runs as one
   step, and each await resumes as a later step with the outcome of the call
   awaited.  Other handlers, and other invocations of deployContract, run
   between these steps. *)

\* most invocations of deployContract in one behaviour
MaxRuns == 2

\* values of the connection store's address: null, the empty string, and the
\* address of a connected wallet
EmptyAddr == [kind |-> "empty", hash |-> 0]
WalletAddr == [kind |-> "addr", hash |-> 1]
StoreAddresses == {NullAddr, EmptyAddr, WalletAddr}

\* the form data handed to deployContract
Forms == [name : {<<65>>, <<233>>}, amountOk : BOOLEAN]

\* the metadata createDeployParams builds from the parameters
MetadataOf(form) ==
    <<[k |-> "name", def |-> TRUE, v |-> form.name],
      [k |-> "symbol", def |-> TRUE, v |-> <<65>>]>>

\* Address.parse(address)
AddressParse(a) == a.hash

DerivedFor(a, form) ==
    addressForContract(createDeployParams(AddressParse(a), MetadataOf(form), toNano(1, 0)))

IdleRun ==
    [pc |-> "idle", thrown |-> "", form |-> [name |-> <<>>, amountOk |-> FALSE],
     owner |-> NullAddr, checked |-> NoAddress, isDeployed |-> "none", created |-> FALSE,
     loading |-> FALSE]

InFlight(r) == runs[r].pc \in {"awaitIsDeployed", "awaitCreateJetton"}

InitDeploy ==
    /\ address = NullAddr
    /\ connection = "null"
    /\ error = "null"
    /\ isLoading = FALSE
    /\ contractAddress = NoAddress
    /\ runs = [r \in 1..MaxRuns |-> IdleRun]
    /\ CodecOff
    /\ MsgOff

\* connectWalletSelector's set: the store takes the new address
SetAddress(a) ==
    /\ a # address
    /\ address' = a
    /\ UNCHANGED <<connection, error, isLoading, contractAddress, runs, codecVars, msgVars>>

\* the wallet connection service gains or loses its connection
SetConnection(c) ==
    /\ c # connection
    /\ connection' = c
    /\ UNCHANGED <<address, error, isLoading, contractAddress, runs, codecVars, msgVars>>

\* deployContract with the connection check after setIsLoading(true)
DeployStart_loadingFirst(r, form, paramsOk) ==
    /\ runs[r].pc = "idle"
    /\ \A q \in 1..(r - 1) : runs[q].pc # "idle"
    /\ isLoading' = TRUE
    /\ IF address.kind # "addr" \/ connection = "null"
       THEN runs' = [runs EXCEPT ![r] = [@ EXCEPT !.pc = "thrown",
                                                  !.thrown = "Wallet not connected",
                                                  !.form = form]]
       ELSE runs' = [runs EXCEPT ![r] = [@ EXCEPT !.pc = "awaitIsDeployed",
                                                  !.form = form, !.owner = address,
                                                  !.loading = TRUE,
                                                  !.checked = DerivedFor(address, form)]]
    /\ UNCHANGED <<address, connection, error, contractAddress, codecVars, msgVars>>

\* deployContract, lines 71-96: from the call up to the first await
DeployStart(r, form, paramsOk) ==
    /\ runs[r].pc = "idle"
    /\ \A q \in 1..(r - 1) : runs[q].pc # "idle"
    /\ IF address.kind # "addr" \/ connection = "null"
       THEN /\ runs' = [runs EXCEPT ![r] = [@ EXCEPT !.pc = "thrown",
                                                     !.thrown = "Wallet not connected",
                                                     !.form = form]]
            /\ UNCHANGED isLoading
       ELSE IF ~ form.amountOk
       THEN \* toNano(data.mintAmount) throws
            /\ runs' = [runs EXCEPT ![r] = [@ EXCEPT !.pc = "thrown",
                                                     !.thrown = "Invalid number",
                                                     !.form = form, !.owner = address]]
            /\ UNCHANGED isLoading
       ELSE IF ~ paramsOk
       THEN \* createDeployParams or addressForContract throws
            /\ isLoading' = TRUE
            /\ runs' = [runs EXCEPT ![r] = [@ EXCEPT !.pc = "thrown",
                                                     !.thrown = "createDeployParams failed",
                                                     !.form = form, !.owner = address,
                                                     !.loading = TRUE]]
       ELSE /\ isLoading' = TRUE
            /\ runs' = [runs EXCEPT ![r] = [@ EXCEPT !.pc = "awaitIsDeployed",
                                                     !.form = form, !.owner = address,
                                                     !.loading = TRUE,
                                                     !.checked = DerivedFor(address, form)]]
    /\ UNCHANGED <<address, connection, error, contractAddress, codecVars, msgVars>>

\* the isDeployed branch without its return
IsDeployedResolves_noReturn(r, b) ==
    /\ runs[r].pc = "awaitIsDeployed"
    /\ IF b
       THEN /\ error' = "Contract already deployed"
            /\ isLoading' = FALSE
            /\ runs' = [runs EXCEPT ![r] = [@ EXCEPT !.pc = "awaitCreateJetton",
                                                     !.isDeployed = "true",
                                                     !.created = TRUE]]
       ELSE /\ runs' = [runs EXCEPT ![r] = [@ EXCEPT !.pc = "awaitCreateJetton",
                                                     !.isDeployed = "false",
                                                     !.created = TRUE]]
            /\ UNCHANGED <<error, isLoading>>
    /\ UNCHANGED <<address, connection, contractAddress, codecVars, msgVars>>

\* deployContract, lines 94-107: isContractDeployed resolves with b; on false
\* the handler goes on to call createJetton and awaits it
IsDeployedResolves(r, b) ==
    /\ runs[r].pc = "awaitIsDeployed"
    /\ IF b
       THEN /\ error' = "Contract already deployed"
            /\ isLoading' = FALSE
            /\ runs' = [runs EXCEPT ![r] = [@ EXCEPT !.pc = "returned",
                                                     !.isDeployed = "true"]]
       ELSE /\ runs' = [runs EXCEPT ![r] = [@ EXCEPT !.pc = "awaitCreateJetton",
                                                     !.isDeployed = "false",
                                                     !.created = TRUE]]
            /\ UNCHANGED <<error, isLoading>>
    /\ UNCHANGED <<address, connection, contractAddress, codecVars, msgVars>>

\* deployContract, lines 94-96: isContractDeployed rejects; the await is in no
\* try block, the rejection leaves the handler
IsDeployedRejects(r) ==
    /\ runs[r].pc = "awaitIsDeployed"
    /\ runs' = [runs EXCEPT ![r] = [@ EXCEPT !.pc = "thrown", !.thrown = "TransportError"]]
    /\ UNCHANGED <<address, connection, error, isLoading, contractAddress, codecVars, msgVars>>

\* the addresses createJetton may resolve with
ContractAddresses == {DerivedFor(WalletAddr, f) : f \in Forms}

\* deployContract, lines 104-115: createJetton resolves with the address of
\* the contract
CreateJettonResolves(r, result) ==
    /\ runs[r].pc = "awaitCreateJetton"
    /\ contractAddress' = result
    /\ isLoading' = FALSE
    /\ runs' = [runs EXCEPT ![r] = [@ EXCEPT !.pc = "returned"]]
    /\ UNCHANGED <<address, connection, error, codecVars, msgVars>>

\* deployContract, lines 109-115: createJetton rejects, with an Error or with
\* some other value
CreateJettonRejects(r, isError) ==
    /\ runs[r].pc = "awaitCreateJetton"
    /\ error' = IF isError THEN "createJetton failed" ELSE error
    /\ isLoading' = FALSE
    /\ runs' = [runs EXCEPT ![r] = [@ EXCEPT !.pc = "returned"]]
    /\ UNCHANGED <<address, connection, contractAddress, codecVars, msgVars>>

\* the Snackbar's onClose
CloseSnackbar ==
    /\ error # "null"
    /\ error' = "null"
    /\ UNCHANGED <<address, connection, isLoading, contractAddress, runs, codecVars, msgVars>>

\* onCloseJettonDetailsModal; the modal is rendered only with a contract
\* address and a wallet address
onCloseJettonDetailsModal ==
    /\ contractAddress # NoAddress
    /\ address.kind = "addr"
    /\ contractAddress' = NoAddress
    /\ UNCHANGED <<address, connection, error, isLoading, runs, codecVars, msgVars>>

NextDeploy ==
    \/ \E a \in StoreAddresses : SetAddress(a)
    \/ \E c \in {"null", "conn"} : SetConnection(c)
    \/ \E r \in 1..MaxRuns, form \in Forms, paramsOk \in BOOLEAN : DeployStart(r, form, paramsOk)
    \/ \E r \in 1..MaxRuns, b \in BOOLEAN : IsDeployedResolves(r, b)
    \/ \E r \in 1..MaxRuns : IsDeployedRejects(r)
    \/ \E r \in 1..MaxRuns, result \in ContractAddresses : CreateJettonResolves(r, result)
    \/ \E r \in 1..MaxRuns, isError \in BOOLEAN : CreateJettonRejects(r, isError)
    \/ CloseSnackbar
    \/ onCloseJettonDetailsModal

SpecDeploy == InitDeploy /\ [][NextDeploy]_vars

----------------------------------------------------------------------------
(* Properties of deployContract *)

Runs == 1..MaxRuns

\* createJetton is called only by a run whose isContractDeployed returned
\* false for the address derived from the run's own parameters
CreateOnlyAfterNotDeployed ==
    \A r \in Runs :
        /\ runs[r].created =>
              /\ runs[r].isDeployed = "false"
              /\ runs[r].checked = DerivedFor(runs[r].owner, runs[r].form)
        /\ runs[r].isDeployed = "true" => ~ runs[r].created /\ runs[r].pc = "returned"

\* the step that takes the answer true
AlreadyDeployedStep ==
    \A r \in Runs :
        (runs[r].pc = "awaitIsDeployed" /\ runs'[r].isDeployed = "true") =>
            /\ error' = "Contract already deployed"
            /\ isLoading' = FALSE
            /\ contractAddress' = contractAddress
            /\ runs'[r].pc = "returned"
            /\ ~ runs'[r].created

\* C8: createJetton is called only after isContractDeployed has returned
\* false for the address derived from the same deploy parameters; when it
\* returns true the handler sets error to "Contract already deployed", sets
\* isLoading to false, leaves contractAddress unchanged and never calls
\* createJetton.
C8_DeployOnlyIfNotDeployed ==
    []CreateOnlyAfterNotDeployed /\ [][AlreadyDeployedStep]_vars

C8_Witness ==
    /\ runs[1].pc = "returned" /\ runs[1].created /\ contractAddress = runs[1].checked
    /\ runs[2].pc = "returned" /\ runs[2].isDeployed = "true"
    /\ runs[2].checked = runs[1].checked
    /\ error = "Contract already deployed"

\* C9: once every run of deployContract that set isLoading to true has
\* finished (returned or thrown), isLoading is false.
C9_LoadingCleared ==
    (\A r \in Runs : ~ InFlight(r)) => isLoading = FALSE

\* the step of a run that finds no wallet address or no connection
NotConnectedStep ==
    \A r \in Runs :
        (runs[r].pc = "idle" /\ runs'[r].pc # "idle"
         /\ (address.kind # "addr" \/ connection = "null")) =>
            /\ runs'[r].pc = "thrown"
            /\ runs'[r].thrown = "Wallet not connected"
            /\ isLoading' = isLoading
            /\ error' = error
            /\ contractAddress' = contractAddress
            /\ runs'[r].isDeployed = "none"
            /\ runs'[r].checked = NoAddress
            /\ ~ runs'[r].created

\* a run that failed so never calls isContractDeployed or createJetton
NotConnectedRunStaysOut ==
    \A r \in Runs :
        runs[r].thrown = "Wallet not connected" =>
            /\ runs[r].pc = "thrown"
            /\ runs[r].isDeployed = "none"
            /\ runs[r].checked = NoAddress
            /\ ~ runs[r].created
            /\ ~ runs[r].loading

\* C10: invoked while the stored address is null or empty, or while
\* getConnection() returns null, deployContract fails with "Wallet not
\* connected"; isLoading, error and contractAddress are unchanged and neither
\* isContractDeployed nor createJetton is called.
C10_NotConnectedNoEffect ==
    [][NotConnectedStep]_vars /\ []NotConnectedRunStaysOut

C10_Witness ==
    /\ runs[1].pc = "awaitIsDeployed"
    /\ isLoading = TRUE
    /\ runs[2].thrown = "Wallet not connected"
    /\ address = EmptyAddr
    /\ connection = "conn"

====
